---- MODULE Spec2Model ----
(***************************************************************************)
(* Payment verification and replay prevention of x402-image-seller.        *)
(*                                                                         *)
(* PaymentVerifier exists in two variants with the same interface:         *)
(*   src/src/paymentVerifier.ts   processed hashes mirrored to a Redis set *)
(*   src/unnamed/part_001         processed hashes mirrored to a text file *)
(* The variable backend says which of the two is running.  One async       *)
(* method invocation is a call slot of calls; it advances by one action    *)
(* per synchronous stretch of code between two awaits.                     *)
(*                                                                         *)
(* Abstractions.  A transaction hash is [id, upper]: upper says that the   *)
(* string has a letter that toLowerCase changes.  An address is            *)
(* [who, upper] likewise.  The numbers the code compares (transferAmount,  *)
(* priceInUSDC) are IEEE doubles parsed from decimal strings with at most  *)
(* six fraction digits; they are represented by their value in millionths, *)
(* which the doubles of this magnitude keep apart and keep in order.       *)
(***************************************************************************)
EXTENDS Integers, Sequences, FiniteSets, TLC

\* ---------------------------------------------------------------- bounds
MaxCalls == 2
MaxRefs == 2
MaxFileLines == 2
MaxOps == 3
MaxSeqOps == 4
MaxLogs == 2
MaxReqs == 2
MaxLiveOps == 2

CallIds == 1..MaxCalls
RefIds == 1..MaxRefs

\* ---------------------------------------------------------------- strings
\* A value that is not a string (req.body.tx may be any JSON value).
NonString == [id |-> -2, upper |-> FALSE]

TxStrings == [id : RefIds, upper : BOOLEAN]

TxInputs == TxStrings \cup {NonString}

toLowerCase(s) == [s EXCEPT !.upper = FALSE]

Hashes == {toLowerCase(t) : t \in TxStrings}

\* The inputs of the concurrent specifications: every hash in its canonical
\* form, and a value that is not a string.
RaceInputs == Hashes \cup {NonString}

\* ---------------------------------------------------------------- policy
USDC_DECIMALS == 6

RECURSIVE Pow10(_)
Pow10(n) == IF n = 0 THEN 1 ELSE 10 * Pow10(n - 1)

RECURSIVE StripZeros(_, _)
\* The fraction digits of a decimal string, trailing zeros removed (one
\* digit is kept): [frac, digits].
StripZeros(frac, digits) ==
    IF digits > 1 /\ frac % 10 = 0
    THEN StripZeros(frac \div 10, digits - 1)
    ELSE [frac |-> frac, digits |-> digits]

formatUnits(value, decimals) ==
    LET s == StripZeros(value % Pow10(decimals), decimals)
    IN  [int |-> value \div Pow10(decimals), frac |-> s.frac, digits |-> s.digits]

\* A string that does not start with a number.
Text(s) == [text |-> s]

\* The number parseFloat returns for a string that does not start with one;
\* every comparison with it is false.
NaN == -1

\* The number a decimal string denotes, in millionths.
parseFloat(str) ==
    IF "text" \in DOMAIN str THEN NaN
    ELSE str.int * Pow10(USDC_DECIMALS) + str.frac * Pow10(USDC_DECIMALS - str.digits)

\* a < b on JavaScript numbers
Less(a, b) == a # NaN /\ b # NaN /\ a < b

\* An environment variable that is not set.
Unset == [unset |-> TRUE]

\* A well-formed address: 0x and 40 hex digits, some of them upper-case.
ConfiguredWallet == [who |-> "wallet", upper |-> TRUE]

\* /^0x[a-fA-F0-9]{40}$/.test(walletAddress)
IsAddress(address) == "who" \in DOMAIN address

\* The settings of process.env.WALLET_ADDRESS and process.env.PRICE_IN_USDC.
WalletSettings == {Unset, Text("0x12"), ConfiguredWallet}

PriceSettings ==
    {Unset, Text("abc"), [int |-> 0, frac |-> 1, digits |-> 1], [int |-> 0, frac |-> 5, digits |-> 2]}

Environments == [WALLET_ADDRESS : WalletSettings, PRICE_IN_USDC : PriceSettings]

\* The environment of the deployment the README describes.
DefaultEnv == [WALLET_ADDRESS |-> ConfiguredWallet, PRICE_IN_USDC |-> Unset]

VARIABLES
    env,            \* process.env: WALLET_ADDRESS and PRICE_IN_USDC
    phase           \* "starting", "serving" (app.listen was called) or "exited"

\* parseFloat(process.env.PRICE_IN_USDC || "0.1")
priceInUSDC ==
    parseFloat(IF env.PRICE_IN_USDC = Unset
               THEN [int |-> 0, frac |-> 1, digits |-> 1]
               ELSE env.PRICE_IN_USDC)

walletAddress == toLowerCase(ConfiguredWallet)

\* usdcContract.target: the configured token contract address, as given.
usdcTarget == [who |-> "usdc", upper |-> TRUE]

\* ---------------------------------------------------------------- ledger
\* What provider.getTransactionReceipt answers: null, a rejection (the msg
\* of the Error, possibly empty), or a receipt with a status and its logs.
Absent == [kind |-> "absent"]

Throws(msg) == [kind |-> "throws", msg |-> msg]

Receipt(status, logs) == [kind |-> "receipt", status |-> status, logs |-> logs]

\* A log entry: the emitting address, what interface.parseLog does with its
\* topics and data ("Transfer", "Other": another event, "null": no event of
\* the ABI, "throws": malformed), and the decoded args.to and args.value.
Log(address, parse, to, value) ==
    [address |-> address, parse |-> parse, to |-> to, value |-> value]

Usdc(upper) == [who |-> "usdc", upper |-> upper]

Wallet(upper) == [who |-> "wallet", upper |-> upper]

Stranger == [who |-> "stranger", upper |-> FALSE]

Pay(value) == Log(Usdc(FALSE), "Transfer", Wallet(TRUE), value)

\* The ledger answers used by the concurrent specification.
RaceResponses ==
    { Absent,
      Throws("timeout"),
      Receipt(1, <<Pay(99999)>>),
      Receipt(1, <<Pay(100000)>>) }

\* The ledger answers used by the sequential specification: one for every
\* way verifyPayment ends, and a log that fails to parse.
CoreResponses ==
    { Absent,
      Throws("timeout"),
      Throws(""),
      Receipt(0, <<Pay(100000)>>),
      Receipt(1, <<Log(Usdc(FALSE), "Transfer", Stranger, 100000)>>),
      Receipt(1, <<Pay(99999)>>),
      Receipt(1, <<Pay(100000)>>),
      Receipt(1, <<Log(Usdc(FALSE), "throws", Stranger, 0), Pay(100000)>>) }

\* The ledger answers used by the policy specification: null, a rejection
\* with and without a message, and every receipt of either status with up
\* to MaxLogs entries of PolicyLogs.
Amounts == {50000, 99999, 100000, 150000, 500000}

PolicyLogs ==
    {Pay(v) : v \in Amounts}
    \cup { Log(Usdc(TRUE), "Transfer", Wallet(FALSE), 150000),
           Log(Usdc(FALSE), "Transfer", Stranger, 500000),
           Log(Stranger, "Transfer", Wallet(FALSE), 500000),
           Log(Usdc(FALSE), "null", Stranger, 0),
           Log(Usdc(FALSE), "throws", Stranger, 0),
           Log(Usdc(FALSE), "Other", Wallet(TRUE), 500000) }

LogSeqs == UNION {[1..n -> PolicyLogs] : n \in 0..MaxLogs}

PolicyResponses ==
    {Absent, Throws("timeout"), Throws("")}
    \cup {Receipt(status, logs) : status \in {0, 1}, logs \in LogSeqs}

PolicyTx == [id |-> 1, upper |-> TRUE]

\* A receipt that passes every gate of verifyPayment.
Qualifying == Receipt(1, <<Pay(100000)>>)

\* ---------------------------------------------------------------- results
AlreadyUsed == "This transaction has already been used."

NotFoundOrPending == "Transaction not found or not yet confirmed."

TransactionFailed == "Transaction failed (status: 0)."

RecipientMismatch == "USDC transfer to address not found."

InsufficientAmount == "Insufficient payment amount."

DefaultError == "An error occurred during verification."

TypeErrorMessage == "txHash.toLowerCase is not a function"

Reject(error) == [valid |-> FALSE, error |-> error]

RejectAmount(error, amount) == [valid |-> FALSE, error |-> error, amount |-> amount]

Accept(amount) == [valid |-> TRUE, amount |-> amount]

IsAccept(result) == "valid" \in DOMAIN result /\ result.valid

\* Mutant: the catch block returns error.message with no fallback text.
CatchError_NoFallback(msg) == Reject(msg)

\* The catch block of verifyPayment.
CatchError(msg) == Reject(IF msg # "" THEN msg ELSE DefaultError)

\* ---------------------------------------------------------------- decode
\* Mutant: the emitting contract of a log entry is not looked at.
LogMatches_AnyContract(log) ==
    /\ log.parse = "Transfer"
    /\ toLowerCase(log.to) = toLowerCase(ConfiguredWallet)

\* One iteration of the loop over receipt.logs: TRUE when the entry is the
\* transfer the loop stops at.
LogMatches(log) ==
    /\ toLowerCase(log.address) = toLowerCase(usdcTarget)
    /\ log.parse = "Transfer"
    /\ toLowerCase(log.to) = walletAddress

RECURSIVE ScanLogs_NoBreak(_, _)
\* Mutant: the loop does not stop at the first match; the last match wins.
ScanLogs_NoBreak(logs, i) ==
    IF i > Len(logs)
    THEN [transferFound |-> FALSE, transferAmount |-> 0]
    ELSE LET rest == ScanLogs_NoBreak(logs, i + 1)
         IN  IF rest.transferFound THEN rest
             ELSE IF LogMatches(logs[i])
                  THEN [transferFound |-> TRUE,
                        transferAmount |-> parseFloat(formatUnits(logs[i].value, USDC_DECIMALS))]
                  ELSE rest

RECURSIVE ScanLogs(_, _)
\* The loop over receipt.logs from entry i on: [transferFound, transferAmount].
ScanLogs(logs, i) ==
    IF i > Len(logs)
    THEN [transferFound |-> FALSE, transferAmount |-> 0]
    ELSE IF LogMatches(logs[i])
         THEN [transferFound |-> TRUE,
               transferAmount |-> parseFloat(formatUnits(logs[i].value, USDC_DECIMALS))]
         ELSE ScanLogs(logs, i + 1)

\* Mutant: the price check rejects an amount equal to the price.
BelowPrice_OrEqual(transferAmount) ==
    Less(transferAmount, priceInUSDC) \/ transferAmount = priceInUSDC

\* transferAmount < this.priceInUSDC
BelowPrice(transferAmount) == Less(transferAmount, priceInUSDC)

\* Mutant: the status of the receipt is not looked at.
StatusFailed_Never(receipt) == FALSE

\* receipt.status !== 1
StatusFailed(receipt) == receipt.status # 1

\* Mutant: a null receipt is not tested for; reading its blockNumber throws.
NullReceipt_Throws(receipt) == CatchError("Cannot read properties of null")

\* if (!receipt) return { valid: false, error: ... }
NullReceipt(receipt) == Reject(NotFoundOrPending)

\* Mutant: the insufficient-amount result leaves the amount out.
Decide_NoAmount(resp) ==
    IF resp.kind = "throws" THEN CatchError(resp.msg)
    ELSE IF resp.kind = "absent" THEN NullReceipt(resp)
    ELSE IF StatusFailed(resp) THEN Reject(TransactionFailed)
    ELSE LET scan == ScanLogs(resp.logs, 1)
         IN  IF ~scan.transferFound THEN Reject(RecipientMismatch)
             ELSE IF BelowPrice(scan.transferAmount)
                  THEN Reject(InsufficientAmount)
                  ELSE Accept(scan.transferAmount)

\* Mutant: a log entry of the token contract that parseLog throws on, met
\* before the transfer, ends verifyPayment in its catch block.
Decide_DecodeThrows(resp) ==
    IF resp.kind = "throws" THEN CatchError(resp.msg)
    ELSE IF resp.kind = "absent" THEN NullReceipt(resp)
    ELSE IF StatusFailed(resp) THEN Reject(TransactionFailed)
    ELSE IF \E i \in 1..Len(resp.logs) :
               /\ resp.logs[i].parse = "throws"
               /\ toLowerCase(resp.logs[i].address) = toLowerCase(usdcTarget)
               /\ \A j \in 1..(i - 1) : ~LogMatches(resp.logs[j])
         THEN CatchError("data out-of-bounds")
    ELSE LET scan == ScanLogs(resp.logs, 1)
         IN  IF ~scan.transferFound THEN Reject(RecipientMismatch)
             ELSE IF BelowPrice(scan.transferAmount)
                  THEN RejectAmount(InsufficientAmount, scan.transferAmount)
                  ELSE Accept(scan.transferAmount)

\* Mutant: the transfer is looked for before the status is tested.
Decide_RecipientBeforeStatus(resp) ==
    IF resp.kind = "throws" THEN CatchError(resp.msg)
    ELSE IF resp.kind = "absent" THEN NullReceipt(resp)
    ELSE LET scan == ScanLogs(resp.logs, 1)
         IN  IF ~scan.transferFound THEN Reject(RecipientMismatch)
             ELSE IF StatusFailed(resp) THEN Reject(TransactionFailed)
             ELSE IF BelowPrice(scan.transferAmount)
                  THEN RejectAmount(InsufficientAmount, scan.transferAmount)
                  ELSE Accept(scan.transferAmount)

\* verifyPayment from the resumption after getTransactionReceipt up to the
\* decision: a rejection, or Accept(amount) when the hash is to be recorded.
Decide(resp) ==
    IF resp.kind = "throws" THEN CatchError(resp.msg)
    ELSE IF resp.kind = "absent" THEN NullReceipt(resp)
    ELSE IF StatusFailed(resp) THEN Reject(TransactionFailed)
    ELSE LET scan == ScanLogs(resp.logs, 1)
         IN  IF ~scan.transferFound THEN Reject(RecipientMismatch)
             ELSE IF BelowPrice(scan.transferAmount)
                  THEN RejectAmount(InsufficientAmount, scan.transferAmount)
                  ELSE Accept(scan.transferAmount)

\* ---------------------------------------------------------------- file
\* The content of processed_txs.txt is the sequence of its '\n'-separated
\* segments: a string with k line breaks has k + 1 segments, the empty
\* string is <<EmptyLine>>.  split('\n') and join('\n') are this reading.
EmptyLine == [id |-> 0, upper |-> FALSE]

\* Two strings written one after the other with no line break between them.
GluedLine == [id |-> -1, upper |-> FALSE]

EmptyContent == <<EmptyLine>>

Front(seq) == SubSeq(seq, 1, Len(seq) - 1)

Last(seq) == seq[Len(seq)]

\* content + `${txHash}\n`
appendLine(content, txHash) ==
    IF Last(content) = EmptyLine
    THEN Front(content) \o <<txHash, EmptyLine>>
    ELSE Front(content) \o <<GluedLine, EmptyLine>>

\* Mutant: the empty segments are not filtered out.
loadLines_KeepEmpty(content) == {content[i] : i \in 1..Len(content)}

\* data.split('\n').filter(tx => tx.length > 0) as a Set
loadLines(content) ==
    {content[i] : i \in {j \in 1..Len(content) : content[j] # EmptyLine}}

\* Mutant: the filter keeps every line.
removeLine_KeepAll(content, lowerCaseTxHash) == content

\* data.split('\n').filter(tx => tx.toLowerCase() !== lowerCaseTxHash).join('\n')
removeLine(content, lowerCaseTxHash) ==
    SelectSeq(content, LAMBDA tx : toLowerCase(tx) # lowerCaseTxHash)

\* ---------------------------------------------------------------- state
VARIABLES
    backend,        \* "redis" (paymentVerifier.ts) or "file" (part_001)
    processedTxs,   \* this.processedTxs, the in-memory Set
    redisSet,       \* the members of the Redis key processed_txs
    redisQ,         \* the calls whose Redis command awaits its reply, in order sent
    file,           \* processed_txs.txt: [exists, content]
    calls,          \* the invocations of verifyPayment / removeProcessedTx
    accepts,        \* history: per hash, valid=true returns since the last rollback of it
    stage,          \* history: per hash, where it stands in accept / rollback / accept
    live,           \* history: hashes accepted and not rolled back since, over restarts
    survivors,      \* history: live at the last restart, not rolled back since
    carried,        \* history: survivors the last restart loaded from the store
    underpaid,      \* history: hashes rejected for their amount and not accepted since
    note,           \* history: per hash, the last incident that left it out of step
    ops             \* history: the number of invocations started

\* What surrounds the one verifier the variables above describe.
VARIABLES
    other,          \* a second verifier process, while the first one takes the steps
    script,         \* history: the operation last applied (load, side-by-side run)
    server,         \* "server.ts" or "part_002": the server file that is running
    reqs            \* the POST /generate requests the server has taken

front == <<other, script, server, reqs>>

vars == <<env, phase, backend, processedTxs, redisSet, redisQ, file, calls,
          accepts, stage, live, survivors, carried, underpaid, note, ops, front>>

store == <<redisSet, file>>

history == <<accepts, stage, live, survivors, carried, underpaid, note>>

\* The values of note[h]:
\*   "unsaved"  h was accepted, the store write of it failed and the store
\*              does not hold it
\*   "stale"    h was rolled back, the store removal of it failed and the
\*              store holds it
\*   "reloaded" h was "stale", and a restart has since loaded it from the store
\*   "unloaded" the store held h at the last restart, whose load failed
\* An acceptance whose write succeeds and a rollback whose removal succeeds
\* set it back to "none"; a restart sets it to "reloaded", "unloaded" or "none".
Notes == {"none", "unsaved", "stale", "reloaded", "unloaded"}

NoResult == [pending |-> TRUE]

Void == [void |-> TRUE]

NoResp == [kind |-> "none"]

NoPre ==
    [used |-> FALSE, stage |-> "fresh", survivor |-> FALSE, carried |-> FALSE,
     underpaid |-> FALSE, note |-> "none"]

IdleCall ==
    [op |-> "none", pc |-> "idle", tx |-> EmptyLine, h |-> EmptyLine, amount |-> 0,
     data |-> <<>>, result |-> NoResult, resp |-> NoResp, pre |-> NoPre]

\* What holds of hash h at the moment a call for it starts.
Pre(h) ==
    [used |-> h \in processedTxs, stage |-> stage[h],
     survivor |-> h \in survivors, carried |-> h \in carried,
     underpaid |-> h \in underpaid, note |-> note[h]]

\* The hashes the backing store holds.
Stored ==
    IF backend = "redis" THEN redisSet
    ELSE IF file.exists THEN {x \in Hashes : \E i \in 1..Len(file.content) : file.content[i] = x}
    ELSE {}

\* No second verifier process.
NoOther == [backend |-> "none"]

\* A second verifier process on backend b, constructed and not yet used.
FreshVerifier(b) ==
    [backend |-> b, processedTxs |-> {}, redisQ |-> <<>>,
     calls |-> [c \in CallIds |-> IdleCall],
     accepts |-> [h \in Hashes |-> 0], stage |-> [h \in Hashes |-> "fresh"],
     live |-> {}, survivors |-> {}, carried |-> {}, underpaid |-> {},
     note |-> [h \in Hashes |-> "none"]]

NoScript == [op |-> "none"]

ReqIds == 1..MaxReqs

\* No x-402-payment-tx header, no body.tx and no query.tx, or a falsy one.
NoTx == [id |-> -3, upper |-> FALSE]

\* A string that is not 0x and 64 hex digits.
Malformed == [id |-> -4, upper |-> FALSE]

\* A request not taken yet.  verification is what verifyPayment returned,
\* resp what the ledger answered it; retry says that at arrival a request of
\* the same hash had got its 500 and the hash was not in memory; invoked that
\* imageService.generateImage was called; settled and absent say, for a 500
\* after a failed generation, that removeProcessedTx had returned and that
\* the hash was not in memory when the response was sent.
IdleReq ==
    [pc |-> "idle", tx |-> NoTx, prompt |-> FALSE, html |-> FALSE, call |-> 0,
     verification |-> NoResult, resp |-> NoResp, retry |-> FALSE, invoked |-> FALSE,
     status |-> 0, body |-> "none", settled |-> FALSE, absent |-> FALSE]

InitFront ==
    /\ other = NoOther
    /\ script = NoScript
    /\ server = "server.ts"
    /\ reqs = [r \in ReqIds |-> IdleReq]

\* A verifier constructed over an empty store, in the default environment.
InitVerifier ==
    /\ env = DefaultEnv
    /\ phase = "serving"
    /\ backend \in {"redis", "file"}
    /\ processedTxs = {}
    /\ redisSet = {}
    /\ redisQ = <<>>
    /\ file = [exists |-> FALSE, content |-> EmptyContent]
    /\ calls = [c \in CallIds |-> IdleCall]
    /\ accepts = [h \in Hashes |-> 0]
    /\ stage = [h \in Hashes |-> "fresh"]
    /\ live = {}
    /\ survivors = {}
    /\ carried = {}
    /\ underpaid = {}
    /\ note = [h \in Hashes |-> "none"]
    /\ ops = 0

Init == InitFront /\ InitVerifier

InFlight(c) == calls[c].pc \notin {"idle", "done"}

\* An invocation takes the first slot that is idle.
FreeSlot(c) ==
    /\ calls[c].pc = "idle"
    /\ \A d \in CallIds : d < c => calls[d].pc # "idle"

AllIdle == \A c \in CallIds : calls[c].pc = "idle"

\* Appends to the file are capped: each accepted verify adds a line.
FileRoom ==
    backend = "file" =>
        Len(file.content) - 1 + Cardinality({c \in CallIds : calls[c].op = "verify" /\ InFlight(c)})
            < MaxFileLines

Finish(c, result) ==
    [calls[c] EXCEPT !.pc = "done", !.result = result]

\* ---------------------------------------------------------------- memory
\* Mutant: the dedup check is skipped.
has_Skipped(lowerCaseTxHash) == FALSE

\* Mutant: every hash counts as present.
has_Always(lowerCaseTxHash) == TRUE

\* this.processedTxs.has(lowerCaseTxHash)
has(lowerCaseTxHash) == lowerCaseTxHash \in processedTxs

\* Mutant: the hash is never recorded in memory.
add_Never(lowerCaseTxHash, decision) == processedTxs

\* Mutant: the hash is recorded before the gates are evaluated.
add_BeforeChecks(lowerCaseTxHash, decision) == processedTxs \cup {lowerCaseTxHash}

\* this.processedTxs.add(lowerCaseTxHash), reached on acceptance only
add(lowerCaseTxHash, decision) ==
    IF IsAccept(decision) THEN processedTxs \cup {lowerCaseTxHash} ELSE processedTxs

\* Mutant: rollback leaves the in-memory Set alone.
delete_Keep(lowerCaseTxHash) == processedTxs

\* this.processedTxs.delete(lowerCaseTxHash)
delete(lowerCaseTxHash) == processedTxs \ {lowerCaseTxHash}

\* Mutant: a failed store write takes the hash out of memory again.
afterAppend_UndoOnFailure(lowerCaseTxHash, ok) ==
    IF ok THEN processedTxs ELSE processedTxs \ {lowerCaseTxHash}

\* appendTxHash catches the failure of its write: memory is left as it is.
afterAppend(lowerCaseTxHash, ok) == processedTxs

\* Mutant: a failed store removal puts the hash back into memory.
afterRemove_RestoreOnFailure(lowerCaseTxHash, ok) ==
    IF ok THEN processedTxs ELSE processedTxs \cup {lowerCaseTxHash}

\* removeProcessedTx catches the failure of its store removal: the in-memory
\* delete stands.
afterRemove(lowerCaseTxHash, ok) == processedTxs

\* What removeProcessedTx resolves with once the store removal has settled:
\* the catch block logs the failure and the promise resolves.
removeResult(ok) == Void

\* The history of a rollback whose store removal has settled.
Removed(h, ok) ==
    /\ note' = [note EXCEPT ![h] = IF ~ok /\ h \in Stored THEN "stale" ELSE "none"]
    /\ UNCHANGED <<accepts, stage, live, survivors, carried, underpaid>>

\* Mutant: the store is given the string verifyPayment was called with.
savedHash_AsGiven(txHash, lowerCaseTxHash) == txHash

\* this.appendTxHash(lowerCaseTxHash): the string the store is given.
savedHash(txHash, lowerCaseTxHash) == lowerCaseTxHash

\* Mutant: verifyPayment has no result when the write of appendTxHash fails.
appendResult_Pending(amount, ok) == IF ok THEN Accept(amount) ELSE NoResult

\* Mutant: appendTxHash lets the failure of its write through to the catch
\* block of verifyPayment.
appendResult_Throws(amount, ok) ==
    IF ok THEN Accept(amount) ELSE CatchError("write failed")

\* What verifyPayment returns once appendTxHash has settled: appendTxHash
\* catches and logs the failure of its write.
appendResult(amount, ok) == Accept(amount)

Bump(n) == IF n < 2 THEN n + 1 ELSE 2

\* ---------------------------------------------------------------- verifyPayment
\* verifyPayment(tx) up to its first await: toLowerCase, the dedup check,
\* and the request to the ledger.
VerifyStart(c, tx) ==
    /\ phase = "serving"
    /\ FreeSlot(c)
    /\ FileRoom
    /\ ops' = ops + 1
    /\ IF tx \notin TxStrings
       THEN calls' = [calls EXCEPT ![c] =
                [Finish(c, CatchError(TypeErrorMessage)) EXCEPT !.op = "verify", !.tx = tx]]
       ELSE LET h == toLowerCase(tx)
            IN  calls' = [calls EXCEPT ![c] =
                    IF has(h)
                    THEN [Finish(c, Reject(AlreadyUsed)) EXCEPT
                              !.op = "verify", !.tx = tx, !.h = h, !.pre = Pre(h)]
                    ELSE [calls[c] EXCEPT
                              !.op = "verify", !.pc = "fetch", !.tx = tx, !.h = h,
                              !.pre = Pre(h)]]
    /\ UNCHANGED <<env, phase, backend, processedTxs, redisSet, redisQ, file, history>>

\* getTransactionReceipt answers resp; verifyPayment runs to a rejection or
\* to processedTxs.add and the start of appendTxHash.
VerifyFetched(c, resp) ==
    /\ calls[c].op = "verify"
    /\ calls[c].pc = "fetch"
    /\ LET decision == Decide(resp)
           h == calls[c].h
       IN  /\ processedTxs' = add(h, decision)
           /\ IF IsAccept(decision)
              THEN /\ calls' = [calls EXCEPT ![c] =
                          [calls[c] EXCEPT !.pc = "append", !.resp = resp,
                                           !.amount = decision.amount]]
                   /\ redisQ' = IF backend = "redis" THEN Append(redisQ, c) ELSE redisQ
                   /\ underpaid' = underpaid \ {h}
              ELSE /\ calls' = [calls EXCEPT ![c] =
                          [Finish(c, decision) EXCEPT !.resp = resp]]
                   /\ redisQ' = redisQ
                   /\ underpaid' = IF decision.error = InsufficientAmount
                                   THEN underpaid \cup {h} ELSE underpaid
    /\ UNCHANGED <<env, phase, backend, redisSet, file, accepts, stage, live, survivors, carried,
                   note, ops>>

\* appendTxHash: redis.sadd / fs.promises.appendFile completes (ok) or
\* rejects (caught and logged); verifyPayment returns valid: true.
VerifyAppended(c, ok) ==
    /\ calls[c].op = "verify"
    /\ calls[c].pc = "append"
    /\ LET h == calls[c].h
       IN  /\ IF backend = "redis"
              THEN /\ Head(redisQ) = c
                   /\ redisQ' = Tail(redisQ)
                   /\ redisSet' = IF ok
                                  THEN redisSet \cup {savedHash(calls[c].tx, h)}
                                  ELSE redisSet
                   /\ file' = file
              ELSE /\ file' = IF ok
                              THEN [exists |-> TRUE,
                                    content |-> appendLine(file.content,
                                                           savedHash(calls[c].tx, h))]
                              ELSE file
                   /\ UNCHANGED <<redisQ, redisSet>>
           /\ processedTxs' = afterAppend(h, ok)
           /\ calls' = [calls EXCEPT ![c] = Finish(c, appendResult(calls[c].amount, ok))]
           /\ IF IsAccept(appendResult(calls[c].amount, ok))
              THEN /\ accepts' = [accepts EXCEPT ![h] = Bump(@)]
                   /\ stage' = [stage EXCEPT ![h] =
                          IF @ \in {"rolledback", "reaccepted"}
                          THEN "reaccepted" ELSE "accepted"]
                   /\ live' = live \cup {h}
              ELSE UNCHANGED <<accepts, stage, live>>
           /\ note' = [note EXCEPT ![h] = IF ~ok /\ h \notin Stored THEN "unsaved" ELSE "none"]
    /\ UNCHANGED <<env, phase, backend, survivors, carried, underpaid, ops>>

\* ---------------------------------------------------------------- removeProcessedTx
\* removeProcessedTx(tx) up to its first await: the in-memory delete and,
\* when the hash was there, the start of the store removal.
RollbackStart(c, tx) ==
    /\ phase = "serving"
    /\ FreeSlot(c)
    /\ ops' = ops + 1
    /\ LET h == toLowerCase(tx)
       IN  /\ processedTxs' = delete(h)
           /\ IF has(h)
              THEN /\ calls' = [calls EXCEPT ![c] =
                          [calls[c] EXCEPT !.op = "rollback", !.tx = tx, !.h = h, !.pre = Pre(h),
                               !.pc = IF backend = "redis" THEN "srem" ELSE "readFile"]]
                   /\ redisQ' = IF backend = "redis" THEN Append(redisQ, c) ELSE redisQ
              ELSE /\ calls' = [calls EXCEPT ![c] =
                          [Finish(c, Void) EXCEPT
                               !.op = "rollback", !.tx = tx, !.h = h, !.pre = Pre(h)]]
                   /\ redisQ' = redisQ
           /\ accepts' = [accepts EXCEPT ![h] = 0]
           /\ stage' = [stage EXCEPT ![h] = IF @ = "fresh" THEN "fresh" ELSE "rolledback"]
           /\ live' = live \ {h}
           /\ survivors' = survivors \ {h}
           /\ carried' = carried \ {h}
           /\ note' = IF has(h) THEN [note EXCEPT ![h] = "none"] ELSE note
    /\ UNCHANGED <<env, phase, backend, redisSet, file, underpaid>>

\* redis.srem completes or rejects (caught and logged).
RollbackSrem(c, ok) ==
    /\ calls[c].pc = "srem"
    /\ Head(redisQ) = c
    /\ redisQ' = Tail(redisQ)
    /\ redisSet' = IF ok THEN redisSet \ {calls[c].h} ELSE redisSet
    /\ calls' = [calls EXCEPT ![c] = Finish(c, removeResult(ok))]
    /\ processedTxs' = afterRemove(calls[c].h, ok)
    /\ Removed(calls[c].h, ok)
    /\ UNCHANGED <<env, phase, backend, file, ops>>

\* fs.promises.readFile completes with the content, or rejects (no file,
\* I/O error: caught and logged).
RollbackRead(c, ok) ==
    /\ calls[c].pc = "readFile"
    /\ IF ok /\ file.exists
       THEN /\ calls' = [calls EXCEPT ![c] =
                   [calls[c] EXCEPT !.pc = "writeFile", !.data = file.content]]
            /\ UNCHANGED <<processedTxs, history>>
       ELSE /\ calls' = [calls EXCEPT ![c] = Finish(c, removeResult(FALSE))]
            /\ processedTxs' = afterRemove(calls[c].h, FALSE)
            /\ Removed(calls[c].h, FALSE)
    /\ UNCHANGED <<env, phase, backend, redisSet, redisQ, file, ops>>

\* fs.promises.writeFile replaces the content with the filtered lines read
\* before, or rejects (caught and logged).
RollbackWrite(c, ok) ==
    /\ calls[c].pc = "writeFile"
    /\ file' = IF ok
               THEN [exists |-> TRUE, content |-> removeLine(calls[c].data, calls[c].h)]
               ELSE file
    /\ calls' = [calls EXCEPT ![c] = Finish(c, removeResult(ok))]
    /\ processedTxs' = afterRemove(calls[c].h, ok)
    /\ Removed(calls[c].h, ok)
    /\ UNCHANGED <<env, phase, backend, redisSet, redisQ, ops>>

\* The caller has its answer; the slot serves the next invocation.
Return(c) ==
    /\ calls[c].pc = "done"
    /\ calls' = [calls EXCEPT ![c] = IdleCall]
    /\ UNCHANGED <<env, phase, backend, processedTxs, redisSet, redisQ, file, history, ops>>

\* ---------------------------------------------------------------- restart
\* Mutant: the loaded hashes are not put into the Set.
initialize_Empty(ok) == {}

\* initialize (redis.smembers) / loadProcessedTxs (readFileSync): the Set a
\* new process starts with.  A failed load leaves the empty Set.
initialize(ok) ==
    IF ~ok THEN {}
    ELSE IF backend = "redis" THEN redisSet
    ELSE IF file.exists THEN loadLines(file.content) ELSE {}

\* Mutant: a failed load ends the process.
afterLoad_ExitOnFailure(ok) == IF ok THEN "serving" ELSE "exited"

\* initialize / loadProcessedTxs catch the failure of the load: create
\* returns the verifier and the server goes on to listen.
afterLoad(ok) == "serving"

\* The process ends, its invocations with it, and a new one is constructed.
Restart(ok) ==
    /\ processedTxs' = initialize(ok)
    /\ calls' = [c \in CallIds |-> IdleCall]
    /\ redisQ' = <<>>
    /\ accepts' = [h \in Hashes |-> 0]
    /\ stage' = [h \in Hashes |-> "fresh"]
    /\ survivors' = live
    /\ carried' = IF ok THEN live \cap Stored ELSE {}
    /\ underpaid' = {}
    /\ note' = [h \in Hashes |->
                  IF ok /\ note[h] = "stale" /\ h \in Stored THEN "reloaded"
                  ELSE IF ~ok /\ h \in Stored THEN "unloaded"
                  ELSE "none"]
    /\ phase' = afterLoad(ok)
    /\ UNCHANGED <<env, backend, redisSet, file, live, ops>>

\* ---------------------------------------------------------------- two processes
\* Two processes run the verifier, each with its own in-memory Set, its own
\* invocations and its own Redis connection; the Redis set (and the file) is
\* the one they share.  backend, processedTxs, redisQ, calls and the history
\* describe the process that takes the steps, other the one that waits.
\* Scheduled: the roles are exchanged.
Scheduled ==
    /\ other # NoOther
    /\ other' = [backend |-> backend, processedTxs |-> processedTxs, redisQ |-> redisQ,
                 calls |-> calls, accepts |-> accepts, stage |-> stage, live |-> live,
                 survivors |-> survivors, carried |-> carried, underpaid |-> underpaid,
                 note |-> note]
    /\ backend' = other.backend
    /\ processedTxs' = other.processedTxs
    /\ redisQ' = other.redisQ
    /\ calls' = other.calls
    /\ accepts' = other.accepts
    /\ stage' = other.stage
    /\ live' = other.live
    /\ survivors' = other.survivors
    /\ carried' = other.carried
    /\ underpaid' = other.underpaid
    /\ note' = other.note
    /\ UNCHANGED <<env, phase, redisSet, file, ops, server, reqs>>

\* Neither process has an invocation under way.
BothQuiet ==
    /\ \A c \in CallIds : ~InFlight(c)
    /\ \A c \in CallIds : other.calls[c].pc \in {"idle", "done"}

\* Two verifier processes on one Redis, both constructed over the empty set.
InitShared ==
    /\ other = FreshVerifier("redis")
    /\ script = NoScript
    /\ server = "server.ts"
    /\ reqs = [r \in ReqIds |-> IdleReq]
    /\ InitVerifier
    /\ backend = "redis"

\* ---------------------------------------------------------------- side by side
\* The Redis verifier and the file verifier are given the same operations,
\* one operation at a time: the Redis verifier runs it to its return, then
\* the file verifier runs it with the same argument and the same answer of
\* the ledger.  script keeps the operation, its argument tx, the answer resp
\* of the ledger, what it returned on either side (lead, follow), and where
\* the run stands (at):
\*   "idle"      both have returned; the Redis verifier is next
\*   "lead"      the Redis verifier is running the operation
\*   "handover"  it has returned
\*   "mirror"    the file verifier is next
\*   "follow"    the file verifier is running the operation
\*   "handback"  it has returned
InitSideBySide ==
    /\ other = FreshVerifier("file")
    /\ script = [op |-> "none", tx |-> EmptyLine, resp |-> NoResp,
                 lead |-> NoResult, follow |-> NoResult, at |-> "idle"]
    /\ server = "server.ts"
    /\ reqs = [r \in ReqIds |-> IdleReq]
    /\ InitVerifier
    /\ backend = "redis"

\* The script of an operation that the Redis verifier starts.
Begin(op, tx) ==
    [op |-> op, tx |-> tx, resp |-> NoResp, lead |-> NoResult, follow |-> NoResult,
     at |-> "lead"]

\* The Redis verifier is given the next operation.
LeadVerify(c, tx) ==
    /\ script.at = "idle"
    /\ VerifyStart(c, tx)
    /\ script' = Begin("verify", tx)
    /\ UNCHANGED <<other, server, reqs>>

LeadRollback(c, tx) ==
    /\ script.at = "idle"
    /\ RollbackStart(c, tx)
    /\ script' = Begin("rollback", tx)
    /\ UNCHANGED <<other, server, reqs>>

LeadRestart ==
    /\ script.at = "idle"
    /\ Restart(TRUE)
    /\ script' = [Begin("restart", EmptyLine) EXCEPT !.lead = Void, !.at = "handover"]
    /\ UNCHANGED <<other, server, reqs>>

\* The ledger answers the Redis verifier; the answer is kept for the other.
LeadFetched(c, resp) ==
    /\ script.at = "lead"
    /\ VerifyFetched(c, resp)
    /\ script' = [script EXCEPT !.resp = resp]
    /\ UNCHANGED <<other, server, reqs>>

\* The operation returns to its caller.
Returned(c) ==
    /\ script.at \in {"lead", "follow"}
    /\ Return(c)
    /\ script' = IF script.at = "lead"
                 THEN [script EXCEPT !.lead = calls[c].result, !.at = "handover"]
                 ELSE [script EXCEPT !.follow = calls[c].result, !.at = "handback"]
    /\ UNCHANGED <<other, server, reqs>>

\* The other verifier takes over.
Handover ==
    /\ script.at \in {"handover", "handback"}
    /\ Scheduled
    /\ script' = [script EXCEPT !.at = IF script.at = "handover" THEN "mirror" ELSE "idle"]

\* The file verifier is given the operation the Redis verifier has run.
MirrorVerify(c) ==
    /\ script.at = "mirror"
    /\ script.op = "verify"
    /\ VerifyStart(c, script.tx)
    /\ script' = [script EXCEPT !.at = "follow"]
    /\ UNCHANGED <<other, server, reqs>>

MirrorRollback(c) ==
    /\ script.at = "mirror"
    /\ script.op = "rollback"
    /\ RollbackStart(c, script.tx)
    /\ script' = [script EXCEPT !.at = "follow"]
    /\ UNCHANGED <<other, server, reqs>>

MirrorRestart ==
    /\ script.at = "mirror"
    /\ script.op = "restart"
    /\ Restart(TRUE)
    /\ script' = [script EXCEPT !.follow = Void, !.at = "handback"]
    /\ UNCHANGED <<other, server, reqs>>

\* The ledger gives the file verifier the answer it gave the Redis verifier
\* (null, if that one did not ask).
MirrorFetched(c) ==
    /\ script.at = "follow"
    /\ VerifyFetched(c, IF script.resp = NoResp THEN Absent ELSE script.resp)
    /\ UNCHANGED front

\* ---------------------------------------------------------------- POST /generate
\* The variables of the verifier, which the server code changes only by
\* calling verifyPayment and removeProcessedTx.
verifier == <<env, phase, backend, processedTxs, redisSet, redisQ, file, calls, history, ops>>

\* /^0x[a-fA-F0-9]{64}$/.test(paymentTxHash): a value that is not a string is
\* converted first, and an array holding one well-formed hash passes as that
\* hash does.
txHashRegex(paymentTxHash) == paymentTxHash \in TxStrings \cup {NonString}

\* The answer of paymentMiddleware to a request with no transaction hash:
\* server.ts sends generate.html (status 200) to a client that accepts HTML
\* and the 402 JSON to any other; part_002 sends the 402 JSON to all.
NoTxAnswer(html) ==
    IF server = "server.ts" /\ html
    THEN [status |-> 200, body |-> "page"]
    ELSE [status |-> 402, body |-> "json"]

\* Mutant: the middleware calls next() whatever verifyPayment returned.
verificationValid_Always(verification) == TRUE

\* verification.valid
verificationValid(verification) == IsAccept(verification)

\* Mutant: the 500 is sent without waiting for removeProcessedTx.
settled_Unawaited(call) == TRUE

\* await onFailure(): generateImage goes on when the removeProcessedTx that
\* cleanupOnFailure awaits has returned.
settled(call) == call.pc = "done"

\* !prompt
promptMissing(prompt) == ~prompt

Sent(r, status, body) ==
    [reqs[r] EXCEPT !.pc = "sent", !.status = status, !.body = body]

\* At the arrival of a request with hash tx: an earlier request of the same
\* hash has got its 500 after a failed generation, and the hash is not in
\* memory.
Retry(tx) ==
    /\ tx \in TxStrings
    /\ toLowerCase(tx) \notin processedTxs
    /\ \E q \in ReqIds :
          /\ reqs[q].pc = "sent"
          /\ reqs[q].status = 500
          /\ reqs[q].invoked
          /\ toLowerCase(reqs[q].tx) = toLowerCase(tx)

\* A POST /generate arrives: paymentMiddleware up to its await of
\* verifyPayment, or to the response that ends the request before it.
PostGenerate(r, c, tx, prompt, html) ==
    /\ phase = "serving"
    /\ reqs[r].pc = "idle"
    /\ \A q \in ReqIds : q < r => reqs[q].pc # "idle"
    /\ LET req == [reqs[r] EXCEPT !.tx = tx, !.prompt = prompt, !.html = html]
       IN  IF tx = NoTx
           THEN /\ reqs' = [reqs EXCEPT ![r] =
                       [req EXCEPT !.pc = "sent", !.status = NoTxAnswer(html).status,
                                   !.body = NoTxAnswer(html).body]]
                /\ UNCHANGED verifier
           ELSE IF ~txHashRegex(tx)
           THEN /\ reqs' = [reqs EXCEPT ![r] =
                       [req EXCEPT !.pc = "sent", !.status = 402, !.body = "json"]]
                /\ UNCHANGED verifier
           ELSE /\ VerifyStart(c, tx)
                /\ reqs' = [reqs EXCEPT ![r] =
                       [req EXCEPT !.pc = "verifying", !.call = c, !.retry = Retry(tx)]]
    /\ UNCHANGED <<other, script, server>>

\* verifyPayment has returned: the rest of paymentMiddleware and, after
\* next(), the route handler up to its await of generateImage (axios.post).
Verified(r) ==
    /\ reqs[r].pc = "verifying"
    /\ calls[reqs[r].call].pc = "done"
    /\ LET c == reqs[r].call
           verification == calls[c].result
           req == [reqs[r] EXCEPT !.verification = verification, !.resp = calls[c].resp,
                                  !.call = 0]
       IN  /\ calls' = [calls EXCEPT ![c] = IdleCall]
           /\ reqs' = [reqs EXCEPT ![r] =
                  IF ~verificationValid(verification)
                  THEN [req EXCEPT !.pc = "sent", !.status = 402, !.body = "json"]
                  ELSE IF promptMissing(reqs[r].prompt)
                  THEN [req EXCEPT !.pc = "sent", !.status = 400, !.body = "json"]
                  ELSE [req EXCEPT !.pc = "generating", !.invoked = TRUE]]
    /\ UNCHANGED <<env, phase, backend, processedTxs, redisSet, redisQ, file, history, ops,
                   other, script, server>>

\* axios.post has settled.  With image data (ok) the image is sent.  Without,
\* or with a rejection, the catch block of generateImage calls onFailure:
\* cleanupOnFailure, which calls removeProcessedTx(txHash) and awaits it.
\* (toLowerCase of a value that is not a string throws before anything is
\* removed; the route handler catches it and sends the 500.)
Generated(r, c, ok) ==
    /\ reqs[r].pc = "generating"
    /\ IF ok
       THEN /\ reqs' = [reqs EXCEPT ![r] = Sent(r, 200, "image")]
            /\ UNCHANGED verifier
       ELSE IF reqs[r].tx \notin TxStrings
       THEN /\ reqs' = [reqs EXCEPT ![r] = Sent(r, 500, "json")]
            /\ UNCHANGED verifier
       ELSE /\ RollbackStart(c, reqs[r].tx)
            /\ reqs' = [reqs EXCEPT ![r] = [reqs[r] EXCEPT !.pc = "cleanup", !.call = c]]
    /\ UNCHANGED <<other, script, server>>

\* removeProcessedTx has returned: generateImage throws, the catch block of
\* the route handler sends the 500.
CleanedUp(r) ==
    /\ reqs[r].pc = "cleanup"
    /\ settled(calls[reqs[r].call])
    /\ LET c == reqs[r].call
       IN  /\ reqs' = [reqs EXCEPT ![r] =
                  [Sent(r, 500, "json") EXCEPT
                       !.call = 0,
                       !.settled = calls[c].pc = "done",
                       !.absent = toLowerCase(reqs[r].tx) \notin processedTxs]]
           /\ calls' = IF calls[c].pc = "done" THEN [calls EXCEPT ![c] = IdleCall] ELSE calls
    /\ UNCHANGED <<env, phase, backend, processedTxs, redisSet, redisQ, file, history, ops,
                   other, script, server>>

\* A server process that listens, of either server file, with no request yet.
InitServer ==
    /\ other = NoOther
    /\ script = NoScript
    /\ server \in {"server.ts", "part_002"}
    /\ reqs = [r \in ReqIds |-> IdleReq]
    /\ InitVerifier

\* What a request carries as its transaction hash: nothing, a malformed
\* string, an array, and a hash.
ServerTxs == {NoTx, Malformed, NonString, PolicyTx}

\* The requests of the server specification: [tx, prompt, html].  The Accept
\* header is varied where the code reads it (no hash), the prompt where the
\* code can get to read it (a hash that passes the format test).
ServerInputs ==
    {in \in [tx : ServerTxs, prompt : BOOLEAN, html : BOOLEAN] :
        /\ in.tx # NoTx => ~in.html
        /\ ~txHashRegex(in.tx) => in.prompt}

\* The ledger answers used by the server specification.
ServerResponses == {Absent, Receipt(1, <<Pay(99999)>>), Qualifying}

\* ---------------------------------------------------------------- load
\* The contents of processed_txs.txt that a load is tried on: up to
\* MaxFileLines + 2 segments, each a hash or empty, so with empty lines and
\* with lines that repeat.
LoadContents ==
    UNION {[1..n -> Hashes \cup {EmptyLine}] : n \in 1..(MaxFileLines + 2)}

\* A verifier that has been constructed and has not yet loaded, over a Redis
\* set or a file (or none) with any of these contents.
InitLoad ==
    /\ InitFront
    /\ env = DefaultEnv
    /\ phase = "starting"
    /\ backend \in {"redis", "file"}
    /\ processedTxs = {}
    /\ redisSet \in (IF backend = "redis" THEN SUBSET Hashes ELSE {{}})
    /\ redisQ = <<>>
    /\ file \in (IF backend = "redis"
                 THEN {[exists |-> FALSE, content |-> EmptyContent]}
                 ELSE {[exists |-> FALSE, content |-> EmptyContent]}
                      \cup {[exists |-> TRUE, content |-> k] : k \in LoadContents})
    /\ calls = [c \in CallIds |-> IdleCall]
    /\ accepts = [h \in Hashes |-> 0]
    /\ stage = [h \in Hashes |-> "fresh"]
    /\ live = {}
    /\ survivors = {}
    /\ carried = {}
    /\ underpaid = {}
    /\ note = [h \in Hashes |-> "none"]
    /\ ops = 0

\* initialize / loadProcessedTxs runs; script keeps whether it succeeded,
\* whether the run before it was a successful load too, and the Set that was
\* there before.
Load(ok) ==
    /\ Restart(ok)
    /\ script' = [op |-> IF ok THEN "loaded" ELSE "failed",
                  twice |-> script.op = "loaded",
                  before |-> processedTxs]
    /\ UNCHANGED <<other, server, reqs>>

\* ---------------------------------------------------------------- startup
\* The state of a process that has read its environment and not yet run
\* initializeServices.
InitStartup ==
    /\ InitFront
    /\ env \in Environments
    /\ phase = "starting"
    /\ backend \in {"redis", "file"}
    /\ processedTxs = {}
    /\ redisSet = {}
    /\ redisQ = <<>>
    /\ file = [exists |-> FALSE, content |-> EmptyContent]
    /\ calls = [c \in CallIds |-> IdleCall]
    /\ accepts = [h \in Hashes |-> 0]
    /\ stage = [h \in Hashes |-> "fresh"]
    /\ live = {}
    /\ survivors = {}
    /\ carried = {}
    /\ underpaid = {}
    /\ note = [h \in Hashes |-> "none"]
    /\ ops = 0

\* initializeServices: a missing or malformed WALLET_ADDRESS throws, the catch
\* block calls process.exit(1); otherwise the verifier is created with
\* parseFloat of the configured price and the server starts to listen.
initializeServices(ok) ==
    /\ phase = "starting"
    /\ IF env.WALLET_ADDRESS = Unset \/ ~IsAddress(env.WALLET_ADDRESS)
       THEN /\ phase' = "exited"
            /\ processedTxs' = processedTxs
       ELSE /\ phase' = afterLoad(ok)
            /\ processedTxs' = initialize(ok)
    /\ UNCHANGED <<env, backend, redisSet, redisQ, file, calls, history, ops>>

\* ---------------------------------------------------------------- specifications
\* The steps of the invocations under way, other than the ledger's answer.
Progress ==
    \/ \E c \in CallIds, ok \in BOOLEAN : VerifyAppended(c, ok) /\ UNCHANGED front
    \/ \E c \in CallIds, ok \in BOOLEAN : RollbackSrem(c, ok) /\ UNCHANGED front
    \/ \E c \in CallIds, ok \in BOOLEAN : RollbackRead(c, ok) /\ UNCHANGED front
    \/ \E c \in CallIds, ok \in BOOLEAN : RollbackWrite(c, ok) /\ UNCHANGED front
    \/ \E c \in CallIds : Return(c) /\ UNCHANGED front

\* One process lifetime, invocations overlapping freely at their awaits.
Next ==
    \/ \E c \in CallIds, tx \in RaceInputs :
          ops < MaxOps /\ VerifyStart(c, tx) /\ UNCHANGED front
    \/ \E c \in CallIds, tx \in Hashes :
          ops < MaxOps /\ RollbackStart(c, tx) /\ UNCHANGED front
    \/ \E c \in CallIds, resp \in RaceResponses : VerifyFetched(c, resp) /\ UNCHANGED front
    \/ Progress

Spec == Init /\ [][Next]_vars

\* Invocations one after the other, each starting when the one before has
\* returned, over restarts of the process.
NextSeq ==
    \/ \E c \in CallIds, tx \in TxInputs :
          ops < MaxSeqOps /\ AllIdle /\ VerifyStart(c, tx) /\ UNCHANGED front
    \/ \E c \in CallIds, tx \in TxStrings :
          ops < MaxSeqOps /\ AllIdle /\ RollbackStart(c, tx) /\ UNCHANGED front
    \/ \E c \in CallIds, resp \in CoreResponses : VerifyFetched(c, resp) /\ UNCHANGED front
    \/ Progress
    \/ \E ok \in BOOLEAN : AllIdle /\ Restart(ok) /\ UNCHANGED front

SpecSeq == Init /\ [][NextSeq]_vars

\* verifyPayment of one hash, one invocation after the other, against every
\* receipt of PolicyResponses; the store writes succeed.
NextPolicy ==
    \/ \E c \in CallIds :
          ops < MaxOps /\ AllIdle /\ VerifyStart(c, PolicyTx) /\ UNCHANGED front
    \/ \E c \in CallIds, resp \in PolicyResponses : VerifyFetched(c, resp) /\ UNCHANGED front
    \/ \E c \in CallIds : VerifyAppended(c, TRUE) /\ UNCHANGED front
    \/ \E c \in CallIds : Return(c) /\ UNCHANGED front

SpecPolicy == Init /\ [][NextPolicy]_vars

\* One process lifetime, invocations overlapping freely at their awaits,
\* every store operation succeeding.
NextNoFaults ==
    \/ \E c \in CallIds, tx \in Hashes :
          ops < MaxOps /\ VerifyStart(c, tx) /\ UNCHANGED front
    \/ \E c \in CallIds, tx \in Hashes :
          ops < MaxOps /\ RollbackStart(c, tx) /\ UNCHANGED front
    \/ \E c \in CallIds, resp \in RaceResponses : VerifyFetched(c, resp) /\ UNCHANGED front
    \/ \E c \in CallIds : VerifyAppended(c, TRUE) /\ UNCHANGED front
    \/ \E c \in CallIds : RollbackSrem(c, TRUE) /\ UNCHANGED front
    \/ \E c \in CallIds : RollbackRead(c, TRUE) /\ UNCHANGED front
    \/ \E c \in CallIds : RollbackWrite(c, TRUE) /\ UNCHANGED front
    \/ \E c \in CallIds : Return(c) /\ UNCHANGED front

SpecNoFaults == Init /\ [][NextNoFaults]_vars

\* The ledger answers used by the startup specification.
StartupResponses == {Absent} \cup {Receipt(1, <<Pay(v)>>) : v \in Amounts}

\* A process from its start under every environment of Environments, then
\* verifyPayment of one hash, one invocation after the other.
NextStartup ==
    \/ \E ok \in BOOLEAN : initializeServices(ok) /\ UNCHANGED front
    \/ \E c \in CallIds :
          ops < MaxOps /\ AllIdle /\ VerifyStart(c, PolicyTx) /\ UNCHANGED front
    \/ \E c \in CallIds, resp \in StartupResponses : VerifyFetched(c, resp) /\ UNCHANGED front
    \/ \E c \in CallIds : VerifyAppended(c, TRUE) /\ UNCHANGED front
    \/ \E c \in CallIds : Return(c) /\ UNCHANGED front

SpecStartup == InitStartup /\ [][NextStartup]_vars

NoneInFlight == \A c \in CallIds : ~InFlight(c)

\* A session of invocations in one process lifetime, one after the other,
\* whose results are kept: call c + 1 is the invocation that follows call c.
NextSession ==
    \/ \E c \in CallIds, tx \in TxInputs :
          NoneInFlight /\ VerifyStart(c, tx) /\ UNCHANGED front
    \/ \E c \in CallIds, tx \in TxStrings :
          NoneInFlight /\ RollbackStart(c, tx) /\ UNCHANGED front
    \/ \E c \in CallIds, resp \in CoreResponses : VerifyFetched(c, resp) /\ UNCHANGED front
    \/ \E c \in CallIds, ok \in BOOLEAN : VerifyAppended(c, ok) /\ UNCHANGED front
    \/ \E c \in CallIds, ok \in BOOLEAN : RollbackSrem(c, ok) /\ UNCHANGED front
    \/ \E c \in CallIds, ok \in BOOLEAN : RollbackRead(c, ok) /\ UNCHANGED front
    \/ \E c \in CallIds, ok \in BOOLEAN : RollbackWrite(c, ok) /\ UNCHANGED front

SpecSession == Init /\ [][NextSession]_vars

\* Two processes on one Redis.  Invocations never overlap, within a process
\* or across the two: each starts when every earlier one has returned, and
\* every write to Redis succeeds, so an acceptance is in the shared set before
\* the next verifyPayment starts.  Results are kept until the process ends.
NextShared ==
    \/ \E c \in CallIds, tx \in Hashes :
          ops < MaxOps /\ BothQuiet /\ VerifyStart(c, tx) /\ UNCHANGED front
    \/ \E c \in CallIds, resp \in RaceResponses : VerifyFetched(c, resp) /\ UNCHANGED front
    \/ \E c \in CallIds : VerifyAppended(c, TRUE) /\ UNCHANGED front
    \/ \E ok \in BOOLEAN : BothQuiet /\ Restart(ok) /\ UNCHANGED front
    \/ BothQuiet /\ Scheduled /\ UNCHANGED script

SpecShared == InitShared /\ [][NextShared]_vars

\* One server process: up to MaxReqs POST /generate requests, overlapping
\* freely at their awaits, every store operation succeeding or failing.
NextServer ==
    \/ \E r \in ReqIds, c \in CallIds, in \in ServerInputs :
          PostGenerate(r, c, in.tx, in.prompt, in.html)
    \/ \E c \in CallIds, resp \in ServerResponses : VerifyFetched(c, resp) /\ UNCHANGED front
    \/ \E c \in CallIds, ok \in BOOLEAN : VerifyAppended(c, ok) /\ UNCHANGED front
    \/ \E r \in ReqIds : Verified(r)
    \/ \E r \in ReqIds, c \in CallIds, ok \in BOOLEAN : Generated(r, c, ok)
    \/ \E c \in CallIds, ok \in BOOLEAN : RollbackSrem(c, ok) /\ UNCHANGED front
    \/ \E c \in CallIds, ok \in BOOLEAN : RollbackRead(c, ok) /\ UNCHANGED front
    \/ \E c \in CallIds, ok \in BOOLEAN : RollbackWrite(c, ok) /\ UNCHANGED front
    \/ \E r \in ReqIds : CleanedUp(r)

\* The two verifiers side by side on up to MaxOps operations and any number
\* of restarts, every store operation succeeding.
NextSideBySide ==
    \/ \E c \in CallIds, tx \in TxInputs : ops < 2 * MaxOps /\ LeadVerify(c, tx)
    \/ \E c \in CallIds, tx \in TxStrings : ops < 2 * MaxOps /\ LeadRollback(c, tx)
    \/ LeadRestart
    \/ \E c \in CallIds, resp \in CoreResponses : LeadFetched(c, resp)
    \/ \E c \in CallIds : MirrorVerify(c)
    \/ \E c \in CallIds : MirrorRollback(c)
    \/ MirrorRestart
    \/ \E c \in CallIds : MirrorFetched(c)
    \/ \E c \in CallIds : VerifyAppended(c, TRUE) /\ UNCHANGED front
    \/ \E c \in CallIds : RollbackSrem(c, TRUE) /\ UNCHANGED front
    \/ \E c \in CallIds : RollbackRead(c, TRUE) /\ UNCHANGED front
    \/ \E c \in CallIds : RollbackWrite(c, TRUE) /\ UNCHANGED front
    \/ \E c \in CallIds : Returned(c)
    \/ Handover

SpecSideBySide == InitSideBySide /\ [][NextSideBySide]_vars

SpecServer == InitServer /\ [][NextServer]_vars

\* Loads of one store, one after the other, with nothing else in between.
NextLoad ==
    \/ Load(TRUE)
    \/ Load(FALSE)

SpecLoad == InitLoad /\ [][NextLoad]_vars

\* One process lifetime, invocations overlapping freely at their awaits,
\* where every external call under way settles: the ledger answers or
\* throws, and the store completes or rejects each command it was sent (the
\* Redis client settles its commands in the order they were sent, so the
\* srem queued ahead of a sadd settles too).
NextLive ==
    \/ \E c \in CallIds, tx \in RaceInputs :
          ops < MaxLiveOps /\ VerifyStart(c, tx) /\ UNCHANGED front
    \/ \E c \in CallIds, tx \in Hashes :
          ops < MaxLiveOps /\ RollbackStart(c, tx) /\ UNCHANGED front
    \/ \E c \in CallIds, resp \in RaceResponses : VerifyFetched(c, resp) /\ UNCHANGED front
    \/ Progress

ExternalCallsSettle ==
    \A c \in CallIds :
        /\ WF_vars(\E resp \in RaceResponses : VerifyFetched(c, resp) /\ UNCHANGED front)
        /\ WF_vars(\E ok \in BOOLEAN : VerifyAppended(c, ok) /\ UNCHANGED front)
        /\ WF_vars(\E ok \in BOOLEAN : RollbackSrem(c, ok) /\ UNCHANGED front)

SpecLive == Init /\ [][NextLive]_vars /\ ExternalCallsSettle

\* ---------------------------------------------------------------- claims
VerifyDone(c) == calls[c].op = "verify" /\ calls[c].pc = "done"

\* A finished verifyPayment of a string, with what the ledger answered.
Answered(c) == VerifyDone(c) /\ calls[c].resp.kind = "receipt"

\* C1: of the verifyPayment calls for one hash that overlap in one process,
\* at most one returns valid: true unless the hash is rolled back in between
\* (accepts counts the valid: true returns since the last rollback of h).
C1_AtMostOneAccept == \A h \in Hashes : accepts[h] <= 1

\* C2: of two verifyPayment calls for one hash, one after the other, with the
\* ledger answering the same qualifying receipt, the first returns valid: true
\* and the second is rejected as already used.
C2_SecondVerifyAlreadyUsed ==
    \A c \in CallIds : VerifyDone(c) =>
        /\ (calls[c].pre.stage = "fresh" /\ ~calls[c].pre.used /\ calls[c].resp = Qualifying)
              => calls[c].result = Accept(100000)
        /\ calls[c].pre.stage = "accepted" => calls[c].result = Reject(AlreadyUsed)

C2_Witness ==
    \E c \in CallIds :
        /\ VerifyDone(c)
        /\ calls[c].pre.stage = "accepted"
        /\ calls[c].result = Reject(AlreadyUsed)

\* C3: after an accepted verifyPayment and a removeProcessedTx of the hash, a
\* verifyPayment with the qualifying receipt is accepted again, and the one
\* after that second acceptance is rejected as already used.
C3_RollbackUndoesAcceptance ==
    \A c \in CallIds : VerifyDone(c) =>
        /\ calls[c].pre.stage = "rolledback" =>
              /\ calls[c].result # Reject(AlreadyUsed)
              /\ calls[c].resp = Qualifying => calls[c].result = Accept(100000)
        /\ calls[c].pre.stage = "reaccepted" => calls[c].result = Reject(AlreadyUsed)

C3_Witness ==
    \E c \in CallIds :
        /\ VerifyDone(c)
        /\ calls[c].pre.stage = "reaccepted"
        /\ calls[c].result = Reject(AlreadyUsed)

\* C4 as stated: every hash accepted and not rolled back before a restart is
\* rejected as already used by verifyPayment after the restart.
C4_AcceptedRejectedAfterRestart ==
    \A c \in CallIds :
        (VerifyDone(c) /\ calls[c].pre.survivor) => calls[c].result = Reject(AlreadyUsed)

\* C4 as amended: every hash accepted and not rolled back before a restart
\* that the backing store holds at the restart, the load succeeding, is
\* rejected as already used by verifyPayment after the restart.
C4_StoredRejectedAfterRestart ==
    \A c \in CallIds :
        (VerifyDone(c) /\ calls[c].pre.carried) => calls[c].result = Reject(AlreadyUsed)

C4_Witness ==
    \E c \in CallIds :
        /\ VerifyDone(c)
        /\ calls[c].pre.carried
        /\ calls[c].result = Reject(AlreadyUsed)

\* C5: verifyPayment ends with a result object, never with an exception, for
\* every input and every failure of the ledger call, of the parsing of a log
\* and of the store write; a result with valid: false has a non-empty error.
C5_VerifyReturnsResult ==
    \A c \in CallIds : VerifyDone(c) =>
        /\ DOMAIN calls[c].result \in {{"valid", "amount"}, {"valid", "error"},
                                       {"valid", "error", "amount"}}
        /\ ~calls[c].result.valid =>
              /\ "error" \in DOMAIN calls[c].result
              /\ calls[c].result.error # ""

C5_Witness ==
    \E c \in CallIds :
        /\ VerifyDone(c)
        /\ calls[c].resp = Throws("")
        /\ calls[c].result = Reject(DefaultError)

\* C6: a verifyPayment that returns valid: false changes neither the
\* in-memory Set nor the backing store in any of its steps.
C6_RejectionChangesNothing ==
    [][\A c \in CallIds :
          ( /\ calls'[c] # calls[c]
            /\ calls'[c].op = "verify"
            /\ calls'[c].pc \in {"fetch", "done"}
            /\ calls'[c].pc = "done" => ~IsAccept(calls'[c].result) )
          => (processedTxs' = processedTxs /\ store' = store)]_vars

C6_Witness ==
    \E c \in CallIds :
        /\ VerifyDone(c)
        /\ calls[c].result = Reject(TransactionFailed)
        /\ processedTxs # {}
        /\ Stored # {}

\* C7: a verifyPayment whose hash is in the in-memory Set when it starts is
\* rejected as already used at once, with no request to the ledger.
C7_DedupBeforeFetch ==
    \A c \in CallIds :
        (calls[c].op = "verify" /\ calls[c].pre.used) =>
            /\ calls[c].pc = "done"
            /\ calls[c].result = Reject(AlreadyUsed)
            /\ calls[c].resp = NoResp

C7_Witness ==
    \E c \in CallIds :
        /\ VerifyDone(c)
        /\ calls[c].pre.used
        /\ calls[c].result = Reject(AlreadyUsed)

\* C8 as stated: once verifyPayment has returned valid: true for a hash, the
\* hash is in the in-memory Set until removeProcessedTx is invoked for it.
C8_AcceptedStaysInMemory == \A h \in Hashes : accepts[h] > 0 => h \in processedTxs

\* C8 as amended: a hash in the in-memory Set leaves it only in the step in
\* which removeProcessedTx is invoked for it; no step of a verifyPayment and
\* no failure of a store operation takes it out.
C8_OnlyRollbackRemoves ==
    [][\A h \in Hashes :
          (h \in processedTxs /\ h \notin processedTxs')
          => \E c \in CallIds :
                /\ calls[c].pc = "idle"
                /\ calls'[c].op = "rollback"
                /\ calls'[c].h = h]_vars

\* An accepted hash whose store write failed is still in memory after a
\* verifyPayment of another hash was rejected.
C8_Witness ==
    \E c, d \in CallIds :
        /\ VerifyDone(c)
        /\ IsAccept(calls[c].result)
        /\ calls[c].h \in processedTxs
        /\ calls[c].h \notin Stored
        /\ VerifyDone(d)
        /\ calls[d].result = Reject(NotFoundOrPending)
        /\ calls[d].h # calls[c].h

\* The raw value of the transfer verifyPayment selects: the first entry of the
\* token contract that is a Transfer to the wallet.
Qualifies(log) ==
    log.address.who = "usdc" /\ log.parse = "Transfer" /\ log.to.who = "wallet"

QualifyingAt(logs) == {i \in 1..Len(logs) : Qualifies(logs[i])}

SelectedRaw(logs) ==
    logs[CHOOSE i \in QualifyingAt(logs) : \A j \in QualifyingAt(logs) : i <= j].value

\* A finished verifyPayment that got past the dedup, presence, status and
\* recipient gates.
AtAmountGate(c) ==
    /\ Answered(c)
    /\ calls[c].resp.status = 1
    /\ QualifyingAt(calls[c].resp.logs) # {}

\* C9: with 6 decimals and the price 0.1, a receipt past the first four gates
\* is accepted exactly when the selected raw value is at least 100000; the
\* amount reported is the raw value in millionths (100000 is 0.10, 150000 is
\* 0.15) and 99999 is rejected as insufficient.
C9_AcceptedFromMinimumOn ==
    \A c \in CallIds : AtAmountGate(c) =>
        LET raw == SelectedRaw(calls[c].resp.logs)
        IN  /\ IsAccept(calls[c].result) <=> raw >= 100000
            /\ IsAccept(calls[c].result) => calls[c].result = Accept(raw)
            /\ raw = 150000 => calls[c].result = Accept(150000)
            /\ raw = 99999 => ~IsAccept(calls[c].result)

C9_Witness ==
    \E c \in CallIds :
        /\ AtAmountGate(c)
        /\ SelectedRaw(calls[c].resp.logs) = 100000
        /\ calls[c].result = Accept(100000)

\* C10: when the selected transfer is below the price, verifyPayment returns
\* valid: false, the insufficient-amount error and the observed amount, and
\* the hash is not recorded: a later verifyPayment of it is not rejected as
\* already used.
C10_InsufficientReportsAmount ==
    \A c \in CallIds :
        /\ (AtAmountGate(c) /\ SelectedRaw(calls[c].resp.logs) < 100000) =>
              /\ calls[c].result =
                    RejectAmount(InsufficientAmount, SelectedRaw(calls[c].resp.logs))
              /\ calls[c].h \notin processedTxs
        /\ (VerifyDone(c) /\ calls[c].pre.underpaid) =>
              calls[c].result # Reject(AlreadyUsed)

C10_Witness ==
    \E c \in CallIds :
        /\ AtAmountGate(c)
        /\ calls[c].pre.underpaid
        /\ calls[c].result = RejectAmount(InsufficientAmount, 99999)

\* C11: when a successful receipt holds several token transfers to the
\* wallet, verifyPayment decides on the first one in log order alone: with
\* transfers of 50000 then 500000 it reports the amount 0.05 and rejects the
\* payment as insufficient, although the later transfer would qualify.
C11_FirstTransferDecides ==
    \A c \in CallIds :
        (AtAmountGate(c) /\ Cardinality(QualifyingAt(calls[c].resp.logs)) >= 2) =>
            LET logs == calls[c].resp.logs
                raw == SelectedRaw(logs)
            IN  /\ calls[c].result =
                      IF raw < 100000 THEN RejectAmount(InsufficientAmount, raw)
                      ELSE Accept(raw)
                /\ logs = <<Pay(50000), Pay(500000)>> =>
                      calls[c].result = RejectAmount(InsufficientAmount, 50000)

C11_Witness ==
    \E c \in CallIds :
        /\ AtAmountGate(c)
        /\ calls[c].resp.logs = <<Pay(50000), Pay(500000)>>
        /\ calls[c].result = RejectAmount(InsufficientAmount, 50000)

\* C12: for a hash not in the in-memory Set, a receipt whose status is not 1
\* is rejected as a failed transaction whatever its logs hold, a sufficient
\* transfer to the wallet included, and the hash is not recorded.
C12_FailedStatusRejected ==
    \A c \in CallIds :
        (Answered(c) /\ calls[c].resp.status # 1) =>
            /\ calls[c].result = Reject(TransactionFailed)
            /\ calls[c].h \notin processedTxs
            /\ calls[c].h \notin Stored

C12_Witness ==
    \E c \in CallIds :
        /\ Answered(c)
        /\ calls[c].resp = Receipt(0, <<Pay(100000)>>)
        /\ calls[c].result = Reject(TransactionFailed)
        /\ processedTxs = {}

\* A finished verifyPayment that the ledger answered with null or an error.
Unsettled(c) == VerifyDone(c) /\ calls[c].resp.kind \in {"absent", "throws"}

\* C13: for a hash not in the in-memory Set, a null receipt is rejected as not
\* found or pending and a failure of the ledger call is rejected with the
\* message of the error (or the default text), a different reason; neither
\* records the hash, and the next verifyPayment of the same hash goes to the
\* ledger again and is decided by what the ledger answers then.
C13_AbsentAndErrorRetry ==
    \A c \in CallIds : Unsettled(c) =>
        /\ calls[c].resp = Absent => calls[c].result = Reject(NotFoundOrPending)
        /\ calls[c].resp.kind = "throws" =>
              /\ calls[c].result =
                    Reject(IF calls[c].resp.msg # "" THEN calls[c].resp.msg ELSE DefaultError)
              /\ calls[c].result.error # NotFoundOrPending
        /\ (\A d \in CallIds : d > c => calls[d].pc = "idle") =>
              calls[c].h \notin processedTxs
        /\ \A d \in CallIds :
              (d = c + 1 /\ calls[d].op = "verify" /\ calls[d].h = calls[c].h) =>
                  /\ ~calls[d].pre.used
                  /\ calls[d].pc = "done" =>
                        /\ calls[d].resp # NoResp
                        /\ calls[d].result # Reject(AlreadyUsed)
                        /\ calls[d].resp = Qualifying => calls[d].result = Accept(100000)
                        /\ calls[d].resp = Absent => calls[d].result = Reject(NotFoundOrPending)

C13_Witness ==
    \E c, d \in CallIds :
        /\ d = c + 1
        /\ Unsettled(c)
        /\ calls[c].resp = Absent
        /\ calls[c].result = Reject(NotFoundOrPending)
        /\ VerifyDone(d)
        /\ calls[d].h = calls[c].h
        /\ calls[d].resp = Throws("timeout")
        /\ calls[d].result = Reject("timeout")

\* C14: only a Transfer emitted by the token contract (its address compared
\* in lower case) to the wallet (compared in lower case) qualifies: a
\* successful receipt whose transfers to the wallet come from other contracts,
\* or whose token transfers go to other recipients, is rejected for want of a
\* transfer to the wallet and the hash is not recorded; an entry that differs
\* from the configuration in letter case only does qualify.
C14_OnlyTokenTransfersToWallet ==
    \A c \in CallIds : (Answered(c) /\ calls[c].resp.status = 1) =>
        /\ QualifyingAt(calls[c].resp.logs) = {} =>
              /\ calls[c].result = Reject(RecipientMismatch)
              /\ calls[c].h \notin processedTxs
        /\ QualifyingAt(calls[c].resp.logs) # {} =>
              calls[c].result # Reject(RecipientMismatch)
        /\ calls[c].resp.logs = <<Log(Usdc(TRUE), "Transfer", Wallet(FALSE), 150000)>> =>
              calls[c].result = Accept(150000)

C14_Witness ==
    \E c \in CallIds :
        /\ Answered(c)
        /\ calls[c].resp.logs = << Log(Stranger, "Transfer", Wallet(FALSE), 500000),
                                   Log(Usdc(FALSE), "Transfer", Stranger, 500000) >>
        /\ calls[c].resp.status = 1
        /\ calls[c].result = Reject(RecipientMismatch)
        /\ processedTxs = {}

RollbackDone(c) == calls[c].op = "rollback" /\ calls[c].pc = "done"

\* C15: when removeProcessedTx finds the hash in memory and the store removal
\* fails, the call still resolves and the hash stays out of memory, so a
\* verifyPayment of it with the qualifying receipt is accepted; the store
\* still holds the hash, and a restart that loads the store puts it back into
\* memory, where verifyPayment rejects it as already used.
C15_FailedRemovalLeavesStoreEntry ==
    /\ \A c \in CallIds : RollbackDone(c) =>
          /\ calls[c].result = Void
          /\ calls[c].h \notin processedTxs
    /\ \A h \in Hashes :
          /\ (note[h] = "stale" /\ AllIdle) => (h \notin processedTxs /\ h \in Stored)
          /\ note[h] = "reloaded" => h \in processedTxs
    /\ \A c \in CallIds : VerifyDone(c) =>
          /\ calls[c].pre.note = "stale" =>
                /\ calls[c].result # Reject(AlreadyUsed)
                /\ calls[c].resp = Qualifying => calls[c].result = Accept(100000)
          /\ calls[c].pre.note = "reloaded" => calls[c].result = Reject(AlreadyUsed)

C15_Witness ==
    \E c \in CallIds :
        /\ VerifyDone(c)
        /\ calls[c].pre.note = "reloaded"
        /\ calls[c].result = Reject(AlreadyUsed)

\* C16: when the store write of an acceptance fails, verifyPayment still
\* returns valid: true with the amount and the hash is in the in-memory Set;
\* until the process ends, later verifyPayment calls for the hash are
\* rejected as already used.
C16_FailedWriteStillAccepts ==
    /\ \A h \in Hashes : note[h] = "unsaved" => (h \in processedTxs /\ h \notin Stored)
    /\ \A c \in CallIds : VerifyDone(c) =>
          /\ ( /\ calls[c].h \in Hashes
                /\ note[calls[c].h] = "unsaved"
                /\ calls[c].pre.note # "unsaved" ) =>
                calls[c].result = Accept(100000)
          /\ calls[c].pre.note = "unsaved" => calls[c].result = Reject(AlreadyUsed)

C16_Witness ==
    \E c \in CallIds :
        /\ VerifyDone(c)
        /\ calls[c].pre.note = "unsaved"
        /\ calls[c].result = Reject(AlreadyUsed)
        /\ calls[c].h \notin Stored

\* C17: with every store operation succeeding, whenever no verifyPayment and
\* no removeProcessedTx is under way the hashes the store holds are the
\* hashes of the in-memory Set, whatever the interleaving before.
C17_MemoryEqualsStore == NoneInFlight => Stored = processedTxs

\* The recipient address is not 0x and 40 hex digits, or the price is set to
\* a string that is not a number.
InvalidPolicy ==
    \/ ~IsAddress(env.WALLET_ADDRESS)
    \/ env.PRICE_IN_USDC \in {Text("abc")}

\* C18: under a malformed recipient address or a non-numeric price the
\* process exits during initializeServices: it never listens and no
\* verifyPayment is ever evaluated.
C18_InvalidPolicyNeverServes ==
    InvalidPolicy =>
        /\ phase # "serving"
        /\ \A c \in CallIds : calls[c].op # "verify"

\* The two strings are one hash up to the case of their letters.
SameReference(s, t) == s.id = t.id

\* C19: hashes are put into lower case at every entry point.  A
\* verifyPayment that follows an acceptance of the same hash in another case
\* form is rejected as already used; a removeProcessedTx of any case form
\* takes the entry out of memory; and every element of the in-memory Set, of
\* the Redis set and of the file is in lower case in every reachable state.
C19_LowerCaseCanonical ==
    /\ \A x \in processedTxs \cup redisSet : x \in TxStrings /\ ~x.upper
    /\ \A i \in 1..Len(file.content) :
          file.content[i] = EmptyLine \/ (file.content[i] \in TxStrings /\ ~file.content[i].upper)
    /\ \A c, d \in CallIds :
          ( /\ d = c + 1
            /\ VerifyDone(c)
            /\ IsAccept(calls[c].result)
            /\ calls[d].op # "none"
            /\ SameReference(calls[d].tx, calls[c].tx) ) =>
              /\ calls[d].op = "verify" =>
                    /\ calls[d].pc = "done"
                    /\ calls[d].result = Reject(AlreadyUsed)
              /\ (calls[d].op = "rollback" /\ \A e \in CallIds : e > d => calls[e].pc = "idle") =>
                    \A x \in processedTxs : ~SameReference(x, calls[c].tx)

C19_Witness ==
    \E c, d \in CallIds :
        /\ d = c + 1
        /\ VerifyDone(c)
        /\ IsAccept(calls[c].result)
        /\ ~calls[c].tx.upper
        /\ VerifyDone(d)
        /\ calls[d].tx.upper
        /\ SameReference(calls[d].tx, calls[c].tx)
        /\ calls[d].result = Reject(AlreadyUsed)

\* C20: a failed load at startup does not keep the verifier from being
\* created and serving: the process serves with the hashes of the store left
\* out of memory, and verifyPayment of a hash that only the store holds goes
\* to the ledger and is decided by its answer, a qualifying receipt being
\* accepted again.
C20_FailedLoadStillServes ==
    /\ \A h \in Hashes : note[h] = "unloaded" =>
          /\ phase = "serving"
          /\ AllIdle => (h \notin processedTxs /\ h \in Stored)
    /\ \A c \in CallIds : (VerifyDone(c) /\ calls[c].pre.note = "unloaded") =>
          /\ ~calls[c].pre.used
          /\ calls[c].resp # NoResp
          /\ calls[c].result = Decide(calls[c].resp)
          /\ calls[c].result # Reject(AlreadyUsed)
          /\ calls[c].resp = Qualifying => calls[c].result = Accept(100000)

C20_Witness ==
    \E c \in CallIds :
        /\ VerifyDone(c)
        /\ calls[c].pre.note = "unloaded"
        /\ calls[c].pre.survivor
        /\ calls[c].result = Accept(100000)

\* C21: with two processes on one Redis, once an acceptance of a hash by one
\* process is in the shared set, a verifyPayment of that hash that starts
\* afterwards in the other process is rejected as already used: no hash is
\* accepted by both processes unless their calls overlap.
C21_OneProcessAccepts ==
    \A c, d \in CallIds :
        ~ ( /\ VerifyDone(c)
            /\ IsAccept(calls[c].result)
            /\ other.calls[d].op = "verify"
            /\ other.calls[d].pc = "done"
            /\ IsAccept(other.calls[d].result)
            /\ other.calls[d].h = calls[c].h
            /\ calls[c].h \in redisSet )

\* verifyPayment has returned for the request, and not valid: true.
Rejected(r) ==
    /\ reqs[r].verification # NoResult
    /\ ~IsAccept(reqs[r].verification)

\* The request was ended by paymentMiddleware: it has no hash, a malformed
\* one, or one that verifyPayment did not accept.
Refused(r) ==
    /\ reqs[r].pc # "idle"
    /\ reqs[r].tx \in {NoTx, Malformed} \/ Rejected(r)

FailureAnswered(r) ==
    /\ reqs[r].pc = "sent"
    /\ reqs[r].status = 500
    /\ reqs[r].invoked

\* Another request of the same hash has had it accepted by verifyPayment, or
\* is in a verifyPayment that has put it into the in-memory Set.
AcceptedElsewhere(r) ==
    \E q \in ReqIds :
        /\ q # r
        /\ reqs[q].tx \in TxStrings
        /\ toLowerCase(reqs[q].tx) = toLowerCase(reqs[r].tx)
        /\ \/ IsAccept(reqs[q].verification)
           \/ /\ reqs[q].pc = "verifying"
              /\ calls[reqs[q].call].pc \in {"append", "done"}
              /\ calls[reqs[q].call].resp # NoResp

\* C23 as stated: when the 500 after a failed generation is sent, the
\* removeProcessedTx of the request has returned and the hash is not in the
\* in-memory Set.
C23_AbsentAtFailureResponse ==
    \A r \in ReqIds : FailureAnswered(r) => (reqs[r].settled /\ reqs[r].absent)

\* C23: when the 500 after a failed generation is sent, the removeProcessedTx
\* of the request has returned; the hash is then not in the in-memory Set
\* unless verifyPayment has accepted it for another request in the meantime;
\* and a request of the same hash that arrives after the 500 while the hash is
\* not in memory, the ledger answering the qualifying receipt, is accepted.
C23_RollbackBeforeFailureResponse ==
    /\ \A r \in ReqIds : FailureAnswered(r) =>
          /\ reqs[r].settled
          /\ reqs[r].absent \/ AcceptedElsewhere(r)
    /\ \A q \in ReqIds : (reqs[q].retry /\ reqs[q].resp = Qualifying) =>
          reqs[q].verification = Accept(100000)

C23_Witness ==
    \E r, q \in ReqIds :
        /\ FailureAnswered(r)
        /\ reqs[r].settled
        /\ reqs[r].absent
        /\ reqs[q].retry
        /\ reqs[q].tx = reqs[r].tx
        /\ reqs[q].verification = Accept(100000)

\* C30: every request whose hash verifyPayment has accepted ends with the
\* image sent or with the hash taken out of the in-memory Set again by the
\* removeProcessedTx of that request, whatever the request body holds.
C30_AcceptedEndsDeliveredOrRolledBack ==
    \A r \in ReqIds :
        (reqs[r].pc = "sent" /\ IsAccept(reqs[r].verification)) =>
            \/ reqs[r].status = 200 /\ reqs[r].body = "image"
            \/ reqs[r].status = 500 /\ reqs[r].settled

\* C24: a load that directly follows a successful load of the same store
\* yields the same Set, and the Set a load yields is the set of the hashes
\* the store holds: lines of the file that repeat or are empty add nothing.
C24_LoadIdempotent ==
    script.op = "loaded" =>
        /\ script.twice => processedTxs = script.before
        /\ processedTxs = Stored
        /\ initialize(TRUE) = processedTxs

C24_Witness ==
    /\ script.op = "loaded"
    /\ script.twice
    /\ backend = "file"
    /\ processedTxs # {}
    /\ \E i, j, k \in 1..Len(file.content) :
          /\ i < j
          /\ file.content[i] = file.content[j]
          /\ file.content[i] \in Hashes
          /\ k < Len(file.content)
          /\ file.content[k] = EmptyLine

\* C25: given the same verifyPayment, removeProcessedTx and restart
\* operations one after the other, with the same answers of the ledger and
\* no store operation failing, the Redis verifier and the file verifier
\* return the same result (valid, error, amount) for every operation and hold
\* the same in-memory Set after every operation.
C25_SameContract ==
    /\ script.at \in {"handback", "idle"} => script.follow = script.lead
    /\ script.at = "idle" => processedTxs = other.processedTxs
    /\ script.at = "handback" => processedTxs = other.processedTxs

C25_Witness ==
    /\ script.at = "idle"
    /\ script.op = "verify"
    /\ script.lead = Accept(100000)
    /\ script.follow = Accept(100000)
    /\ stage[toLowerCase(script.tx)] = "reaccepted"
    /\ other.stage[toLowerCase(script.tx)] = "reaccepted"
    /\ other.backend = "file"

\* C26: a removeProcessedTx of a hash that is not in the in-memory Set
\* returns at once: it changes neither the Set nor the store and sends
\* nothing to the store.  So the second of two removeProcessedTx that follow
\* an acceptance finds the hash gone and leaves everything as the first did.
C26_RemoveIdempotent ==
    /\ [][ \A c \in CallIds :
              ( /\ calls[c].pc = "idle"
                /\ calls'[c].op = "rollback"
                /\ calls'[c].h \notin processedTxs ) =>
                  /\ calls'[c].pc = "done"
                  /\ calls'[c].result = Void
                  /\ processedTxs' = processedTxs
                  /\ store' = store
                  /\ redisQ' = redisQ ]_vars
    /\ [] ( \A c \in CallIds :
              (calls[c].op = "rollback" /\ calls[c].pre.stage = "rolledback") =>
                  /\ ~calls[c].pre.used
                  /\ calls[c].pc = "done" )

C26_Witness ==
    \E c \in CallIds :
        /\ calls[c].op = "rollback"
        /\ calls[c].pre.stage = "rolledback"
        /\ ~calls[c].pre.used
        /\ calls[c].pc = "done"
        /\ calls[c].h \notin processedTxs

\* The first gate of verifyPayment that the call fails, in the order dedup,
\* receipt presence, status, recipient, amount; "none" when it passes all.
FirstFailingGate(c) ==
    LET r == calls[c].resp
    IN  IF calls[c].pre.used THEN AlreadyUsed
        ELSE IF r.kind = "absent" THEN NotFoundOrPending
        ELSE IF r.status # 1 THEN TransactionFailed
        ELSE IF QualifyingAt(r.logs) = {} THEN RecipientMismatch
        ELSE IF SelectedRaw(r.logs) < 100000 THEN InsufficientAmount
        ELSE "none"

\* C27: the result of a verifyPayment that the ledger did not fail is decided
\* by the first gate it fails, in the order dedup, receipt presence, status,
\* recipient, amount, and it is valid: true when it fails none; every
\* verifyPayment ends either valid: true, with no error, or valid: false with
\* exactly one error.
C27_FirstFailingGateDecides ==
    \A c \in CallIds : VerifyDone(c) =>
        /\ calls[c].result.valid \in BOOLEAN
        /\ calls[c].result.valid <=> "error" \notin DOMAIN calls[c].result
        /\ calls[c].resp.kind # "throws" =>
              IF FirstFailingGate(c) = "none"
              THEN calls[c].result.valid
              ELSE /\ ~calls[c].result.valid
                   /\ calls[c].result.error = FirstFailingGate(c)

C27_Witness ==
    \E c \in CallIds :
        /\ VerifyDone(c)
        /\ ~calls[c].pre.used
        /\ calls[c].resp.kind = "receipt"
        /\ calls[c].resp.status = 0
        /\ QualifyingAt(calls[c].resp.logs) = {}
        /\ calls[c].result = Reject(TransactionFailed)

\* A log entry of the token contract that parseLog does not decode to a
\* Transfer: it throws, returns null, or returns another event.
Undecoded(log) == log.address.who = "usdc" /\ log.parse # "Transfer"

\* The receipt has such an entry before its first transfer to the wallet.
UndecodedFirst(logs) ==
    \E i \in 1..Len(logs) :
        /\ Undecoded(logs[i])
        /\ \A j \in QualifyingAt(logs) : i < j

\* C28: a log entry of the token contract that fails to decode, or is not a
\* Transfer, is skipped: a receipt of status 1 that has such an entry before
\* its first transfer to the wallet is decided by the amount of that
\* transfer, accepted with it when it covers the price, and never rejected
\* with the error of the decoding.
C28_UndecodedLogSkipped ==
    \A c \in CallIds :
        (AtAmountGate(c) /\ UndecodedFirst(calls[c].resp.logs)) =>
            LET raw == SelectedRaw(calls[c].resp.logs)
            IN  calls[c].result =
                    IF raw >= 100000 THEN Accept(raw)
                    ELSE RejectAmount(InsufficientAmount, raw)

C28_Witness ==
    \E c \in CallIds :
        /\ VerifyDone(c)
        /\ calls[c].resp = Receipt(1, <<Log(Usdc(FALSE), "throws", Stranger, 0), Pay(150000)>>)
        /\ calls[c].result = Accept(150000)

\* verifyPayment call c is under way, at one of its awaits.
VerifyPending(c) == calls[c].op = "verify" /\ InFlight(c)

\* verifyPayment call c has returned a result: valid true, or valid false
\* with an error.
VerifyReturned(c) ==
    /\ VerifyDone(c)
    /\ "valid" \in DOMAIN calls[c].result
    /\ (calls[c].result.valid \/ "error" \in DOMAIN calls[c].result)

\* C29: every verifyPayment call eventually returns a result, accepted or
\* rejected, when each external call it makes eventually settles; a write to
\* the store that fails does not withhold the result.
C29_VerifyReturns ==
    \A c \in CallIds : VerifyPending(c) ~> VerifyReturned(c)

C29_Witness ==
    \E c \in CallIds :
        /\ VerifyReturned(c)
        /\ calls[c].result.valid
        /\ note[calls[c].h] = "unsaved"

\* removeProcessedTx call c read the file with the line of its hash in it,
\* rewrote the file, and has returned.
RemovedFromFile(c) ==
    /\ backend = "file"
    /\ RollbackDone(c)
    /\ \E i \in 1..Len(calls[c].data) : calls[c].data[i] = calls[c].h

\* C31: on the file backend, with no I/O failure, when a removeProcessedTx(a)
\* and an accepted verifyPayment(b) of another hash have both returned,
\* however their steps were interleaved, the file holds b and does not hold
\* a: the read and rewrite of the removal does not lose the appended line.
C31_AppendSurvivesRollback ==
    \A c, d \in CallIds :
        (/\ RemovedFromFile(c)
         /\ VerifyDone(d) /\ IsAccept(calls[d].result)
         /\ calls[c].h # calls[d].h) =>
            /\ calls[d].h \in Stored
            /\ calls[c].h \notin Stored

\* Call c starts as a verifyPayment in this step.
VerifyBegins(c) == calls[c].pc = "idle" /\ calls'[c].op = "verify"

\* Call c starts as a removeProcessedTx in this step.
RollbackBegins(c) == calls[c].pc = "idle" /\ calls'[c].op = "rollback"

\* An accepting verifyPayment has added h to memory in this process: one is
\* suspended on its store write, or one has returned.
EverAdded(h) ==
    \/ stage[h] # "fresh"
    \/ \E d \in CallIds :
          calls[d].op = "verify" /\ calls[d].pc = "append" /\ calls[d].h = h

\* What the store holds is what it held before the step.
StoreUntouched == redisSet' = redisSet /\ file' = file

\* C32 as stated: every verifyPayment of a hash that starts after an
\* accepting verifyPayment has added the hash to memory is rejected as already
\* used.
C32_BegunAfterAddRejected ==
    [][\A c \in CallIds :
          (VerifyBegins(c) /\ calls'[c].h \in Hashes /\ EverAdded(calls'[c].h))
          => calls'[c].result = Reject(AlreadyUsed)]_vars

\* C32 as amended: the step of an accepting verifyPayment that starts the
\* store write has the hash in memory and leaves the store as it is; every
\* verifyPayment of a hash that starts while the hash is in memory, also
\* while the accepting call is suspended on its store write, returns already
\* used without asking the ledger; and the step that starts a
\* removeProcessedTx takes the hash out of memory and leaves the store as it
\* is.
C32_MemoryBeforeStore ==
    [][\A c \in CallIds :
          /\ (calls[c].pc # "append" /\ calls'[c].pc = "append")
             => (calls'[c].h \in processedTxs' /\ StoreUntouched)
          /\ (VerifyBegins(c) /\ calls'[c].h \in processedTxs)
             => (calls'[c].pc = "done" /\ calls'[c].result = Reject(AlreadyUsed))
          /\ RollbackBegins(c)
             => (calls'[c].h \notin processedTxs' /\ StoreUntouched)]_vars

\* A verifyPayment that started while the accepting call of the same hash was
\* suspended on its store write has been rejected as already used.
C32_Witness ==
    \E c, d \in CallIds :
        /\ calls[d].op = "verify" /\ calls[d].pc = "append"
        /\ VerifyDone(c)
        /\ calls[c].h = calls[d].h
        /\ calls[c].pre.used
        /\ calls[c].result = Reject(AlreadyUsed)

====
